---- MODULE Spec2Model ----
(***************************************************************************)
(* A model of kedro_datasets/polars/polars_dataset.py: the PolarsDataset   *)
(* adapter (construction, load, save, existence check, release), the      *)
(* module-level __getattr__, and the collaborators the adapter calls:     *)
(* the filesystem handle (open / write / close / exists / glob /          *)
(* invalidate_cache), the versioned-dataset base class (path and version  *)
(* resolution) and the dataframe engine's csv / parquet writers and       *)
(* readers.  The collaborators are modelled at the call sites, by what    *)
(* the calls do.                                                           *)
(***************************************************************************)
EXTENDS Integers, Sequences, FiniteSets, TLC

VARIABLES phase,        \* "new" | "ready" | "failed": the adapter instance
          args,         \* the constructor's arguments
          self,         \* the instance's fields after __init__
          fs,           \* the target filesystem, as seen through self._fs
          env,          \* the surroundings: the local disk, the caller's frames
          now,          \* the clock behind generated save versions
          result,       \* what the last adapter operation did and returned
          lazy,         \* the lazy frame the last load returned
          saved,        \* per path, the frame last saved there (history)
          module_result \* what the last module attribute lookup did

vars == <<phase, args, self, fs, env, now, result, lazy, saved, module_result>>

(***************************************************************************)
(* Bounds of the model.                                                    *)
(***************************************************************************)
MaxClock == 2     \* generated (timestamp) versions are 1..MaxClock
MaxRows == 1      \* rows of a saved frame

(***************************************************************************)
(* Strings that the code inspects character by character are sequences of  *)
(* one-character strings.                                                   *)
(***************************************************************************)
LowerLetters == <<"a", "c", "e", "j", "n", "o", "p", "q", "r", "s", "t", "u", "v", "x">>
UpperLetters == <<"A", "C", "E", "J", "N", "O", "P", "Q", "R", "S", "T", "U", "V", "X">>

Range(s) == {s[i] : i \in 1..Len(s)}

IndexOf(s, c) == CHOOSE i \in 1..Len(s) : s[i] = c

\* str.lower() on one character: upper-case letters map to lower case,
\* everything else (lower case, blanks, digits) is kept
LowerChar(c) ==
    IF c \in Range(UpperLetters) THEN LowerLetters[IndexOf(UpperLetters, c)] ELSE c

UpperChar(c) ==
    IF c \in Range(LowerLetters) THEN UpperLetters[IndexOf(LowerLetters, c)] ELSE c

\* file_format.lower()
str_lower(s) == [i \in 1..Len(s) |-> LowerChar(s[i])]

csv == <<"c", "s", "v">>
parquet == <<"p", "a", "r", "q", "u", "e", "t">>
json == <<"j", "s", "o", "n">>

ACCEPTED_FILE_FORMATS == {csv, parquet}

(***************************************************************************)
(* Python dicts with string keys.  A value is an opaque token, written as  *)
(* a sequence of strings (a nested dict is its flattened key/value list).  *)
(***************************************************************************)
EmptyDict == [k \in {} |-> <<>>]

Keys(d) == DOMAIN d

\* {**a, **b}, and a.update(b): b wins on a key of both
Merge(a, b) == [k \in DOMAIN a \cup DOMAIN b |-> IF k \in DOMAIN b THEN b[k] ELSE a[k]]

\* d.pop(k, None)
Pop(d, k) == [j \in DOMAIN d \ {k} |-> d[j]]

\* d.setdefault(k, v)
SetDefault(d, k, v) == IF k \in DOMAIN d THEN d ELSE Merge(d, [j \in {k} |-> v])

(***************************************************************************)
(* Paths.  The adapter's file is Base; under versioning the file of        *)
(* version v is Base/v/<name of Base>.                                      *)
(***************************************************************************)
Versions == 1..MaxClock

NoPath == [kind |-> "none", ver |-> 0]
Root == [kind |-> "root", ver |-> 0]
Base == [kind |-> "base", ver |-> 0]
VDir(v) == [kind |-> "vdir", ver |-> v]
VFile(v) == [kind |-> "vfile", ver |-> v]

Paths == {Root, Base} \cup {VDir(v) : v \in Versions} \cup {VFile(v) : v \in Versions}

Parent(p) ==
    CASE p.kind = "vfile" -> VDir(p.ver)
      [] p.kind = "vdir" -> Base
      [] p.kind = "base" -> Root
      [] OTHER -> NoPath

RECURSIVE Ancestors(_)
Ancestors(p) ==
    IF Parent(p) = NoPath THEN {} ELSE {Parent(p)} \cup Ancestors(Parent(p))

(***************************************************************************)
(* Frames and file contents.  A frame is one column: a dtype and its       *)
(* values as text.  A csv file keeps the text only; a parquet file keeps   *)
(* the dtype as well.                                                       *)
(***************************************************************************)
Digits == {"1"}

SeqsUpTo(S, n) == UNION {[1..k -> S] : k \in 1..n}

Frames ==
    {[dtype |-> "Int64", values |-> v] : v \in SeqsUpTo(Digits, MaxRows)}
    \cup {[dtype |-> "Utf8", values |-> v] : v \in SeqsUpTo({"1", "a"}, MaxRows)}

NoFrame == [dtype |-> "none", values |-> <<>>]
NoFile == [fmt |-> "none", dtype |-> "none", values |-> <<>>]

\* polars.DataFrame.write_csv: the values as text, the dtype is not written
write_csv(frame) == [fmt |-> "csv", dtype |-> "text", values |-> frame.values]

\* polars.DataFrame.write_parquet: a typed column
write_parquet(frame) == [fmt |-> "parquet", dtype |-> frame.dtype, values |-> frame.values]

\* the csv readers infer a column's dtype from its text
InferDtype(values) ==
    IF \A i \in 1..Len(values) : values[i] \in Digits THEN "Int64" ELSE "Utf8"

scan_csv(bytes) == [dtype |-> InferDtype(bytes.values), values |-> bytes.values]

scan_parquet(bytes) == [dtype |-> bytes.dtype, values |-> bytes.values]

(***************************************************************************)
(* The filesystem handle self._fs (fsspec).  files and dirs are what the   *)
(* storage holds; cache is the handle's directory-listing cache, a set of  *)
(* <<directory, entry>> pairs (a directory is cached when it has a pair;   *)
(* empty listings are not kept).  The local filesystem keeps no cache.     *)
(***************************************************************************)
Max(S) == CHOOSE x \in S : \A y \in S : y <= x

StorageHas(f, p) == p \in f.dirs \/ f.files[p] # NoFile

Children(f, d) == {p \in Paths : Parent(p) = d /\ StorageHas(f, p)}

Cached(f, d) == \E pr \in f.cache : pr[1] = d

\* ls through the handle: the cached listing when there is one
Listing(f, d) == IF Cached(f, d) THEN {pr[2] : pr \in {q \in f.cache : q[1] = d}} ELSE Children(f, d)

\* self._fs.exists(path): a cached listing of the path or of its parent
\* answers; otherwise the storage is asked
FsExists(f, p) ==
    IF Cached(f, p) THEN TRUE
    ELSE IF Cached(f, Parent(p)) THEN p \in Listing(f, Parent(p))
    ELSE StorageHas(f, p)

\* self._fs.glob(<filepath>/*/<name>): lists the base directory and every
\* version directory in it, and (on a caching handle) keeps the listings
GlobDirs(f) == {Base} \cup {d \in Listing(f, Base) : d.kind = "vdir"}

GlobPaths(f) == UNION {{p \in Listing(f, d) : p.kind = "vfile"} : d \in GlobDirs(f)}

GlobCache(f) ==
    IF f.protocol = "file" THEN f.cache
    ELSE f.cache \cup UNION {{<<d, c>> : c \in Listing(f, d)} : d \in GlobDirs(f)}

\* self._fs.invalidate_cache(path): drops the listing of the path and of
\* every directory above it
FsInvalidate(f, p) ==
    [f EXCEPT !.cache = {pr \in f.cache : pr[1] \notin ({p} \cup Ancestors(p))}]

\* self._fs.open(path, mode="wb"): the local filesystem refuses a
\* directory; an object store takes a key that is also a prefix
FsOpenFails(f, p) == f.protocol = "file" /\ p \in f.dirs

\* leaving the with block closes the file: the buffer's bytes are the
\* file's contents, and the directories above it exist
FsClose(f, p, bytes) ==
    [f EXCEPT !.files[p] = bytes, !.dirs = f.dirs \cup Ancestors(p)]

\* pathlib.Path(save_path).is_dir(): asks the LOCAL filesystem, which is the
\* target only under the file protocol
PathIsDir(f, e, p) == IF f.protocol = "file" THEN p \in f.dirs ELSE p \in e.local_dirs

(***************************************************************************)
(* The versioned-dataset base class (kedro.io.core), as the adapter uses   *)
(* it.  A version is [on, load, save]; 0 stands for None.  vcache is the   *)
(* base class's _version_cache.                                            *)
(***************************************************************************)
NoVersion == [on |-> FALSE, load |-> 0, save |-> 0]

NoVCache == [load |-> 0, save |-> 0]

\* self._get_load_path(): the file itself without versioning, else the file
\* of the pinned load version, else of the latest version that exists;
\* fails (VersionNotFoundError, a DatasetError) when there is none
GetLoadPath(s, f) ==
    IF ~s.version.on
    THEN [ok |-> TRUE, path |-> Base, cache |-> f.cache, vload |-> s.vcache.load, calls |-> <<>>]
    ELSE IF s.version.load # 0
    THEN [ok |-> TRUE, path |-> VFile(s.version.load), cache |-> f.cache,
          vload |-> s.vcache.load, calls |-> <<>>]
    ELSE IF s.vcache.load # 0
    THEN [ok |-> TRUE, path |-> VFile(s.vcache.load), cache |-> f.cache,
          vload |-> s.vcache.load, calls |-> <<>>]
    ELSE LET g == [f EXCEPT !.cache = GlobCache(f)]
             found == {p.ver : p \in {q \in GlobPaths(f) : FsExists(g, q)}}
         IN IF found = {}
            THEN [ok |-> FALSE, path |-> NoPath, cache |-> g.cache, vload |-> 0,
                  calls |-> <<"glob">>]
            ELSE [ok |-> TRUE, path |-> VFile(Max(found)), cache |-> g.cache,
                  vload |-> Max(found), calls |-> <<"glob", "exists">>]

\* resolve_save_version(): the pinned save version, else a generated
\* timestamp (kept in the version cache until it is cleared)
SaveVersion(s, clock) ==
    IF s.version.save # 0 THEN s.version.save
    ELSE IF s.vcache.save # 0 THEN s.vcache.save
    ELSE clock + 1

\* self._get_save_path(): the file itself without versioning, else the
\* file of the save version, which must not exist yet
GetSavePath(s, f, clock) ==
    IF ~s.version.on
    THEN [ok |-> TRUE, path |-> Base, calls |-> <<>>]
    ELSE LET p == VFile(SaveVersion(s, clock))
         IN [ok |-> ~FsExists(f, p), path |-> p, calls |-> <<"exists">>]

(***************************************************************************)
(* PolarsDataset.__init__                                                  *)
(***************************************************************************)
DEFAULT_LOAD_ARGS == EmptyDict
DEFAULT_SAVE_ARGS == EmptyDict

NoResult ==
    [op |-> "none", outcome |-> "none", path |-> NoPath, ret |-> FALSE,
     frame |-> NoFrame, calls |-> <<>>, open_kwargs |-> EmptyDict,
     io_kwargs |-> EmptyDict, inval |-> NoPath, warned |-> FALSE]

NoLazy == [reader |-> "none", fmt |-> <<>>, path |-> NoPath, kwargs |-> EmptyDict]

NoSelf ==
    [file_format |-> <<>>, protocol |-> "none", storage_options |-> EmptyDict,
     load_args |-> EmptyDict, save_args |-> EmptyDict, version |-> NoVersion,
     vcache |-> NoVCache]

InitFileFormatNoLower(a) == a.file_format

\* self._file_format = file_format.lower()
InitFileFormat(a) == str_lower(a.file_format)

\* _fs_args = deepcopy(fs_args) or {}; auto_mkdir defaults to True under the
\* file protocol; self._storage_options = {**_credentials, **_fs_args}
InitStorageOptions(a) ==
    LET _fs_args == IF a.protocol = "file"
                    THEN SetDefault(a.fs_args, "auto_mkdir", <<"True">>)
                    ELSE a.fs_args
    IN Merge(a.credentials, _fs_args)

\* whether __init__ finds storage_options among the merged options
InitDropsStorageOptions(a) ==
    \/ "storage_options" \in Keys(Merge(DEFAULT_SAVE_ARGS, a.save_args))
    \/ "storage_options" \in Keys(Merge(DEFAULT_LOAD_ARGS, a.load_args))

InitLoadArgsNoPop(a) == Merge(DEFAULT_LOAD_ARGS, a.load_args)

\* self._load_args: the defaults updated with load_args, storage_options popped
InitLoadArgs(a) ==
    IF InitDropsStorageOptions(a)
    THEN Pop(Merge(DEFAULT_LOAD_ARGS, a.load_args), "storage_options")
    ELSE Merge(DEFAULT_LOAD_ARGS, a.load_args)

\* self._save_args: the defaults updated with save_args, storage_options popped
InitSaveArgs(a) ==
    IF InitDropsStorageOptions(a)
    THEN Pop(Merge(DEFAULT_SAVE_ARGS, a.save_args), "storage_options")
    ELSE Merge(DEFAULT_SAVE_ARGS, a.save_args)

Construct ==
    /\ phase = "new"
    /\ IF InitFileFormat(args) \notin ACCEPTED_FILE_FORMATS
       THEN /\ phase' = "failed"
            /\ self' = [self EXCEPT !.file_format = InitFileFormat(args)]
            /\ result' = [NoResult EXCEPT !.op = "init", !.outcome = "DatasetError"]
            /\ UNCHANGED fs
       ELSE /\ phase' = "ready"
            /\ self' = [file_format |-> InitFileFormat(args),
                        protocol |-> args.protocol,
                        storage_options |-> InitStorageOptions(args),
                        load_args |-> InitLoadArgs(args),
                        save_args |-> InitSaveArgs(args),
                        version |-> args.version,
                        vcache |-> NoVCache]
            /\ fs' = [fs EXCEPT !.protocol = args.protocol,
                                !.kwargs = InitStorageOptions(args)]
            /\ result' = [NoResult EXCEPT !.op = "init", !.outcome = "ok",
                                          !.warned = InitDropsStorageOptions(args)]
    /\ UNCHANGED <<args, env, now, lazy, saved, module_result>>

(***************************************************************************)
(* PolarsDataset._load, behind AbstractDataSet.load                        *)
(***************************************************************************)
\* the options _load hands to the reader: self._load_args on the local
\* branch (pl.scan_<format>), none on the object-storage branch
\* (ds.dataset, pl.scan_pyarrow_dataset); the fsspec.filesystem("s3") call
\* before ds.dataset builds a handle that is not used
LoadKwargs(s) == IF s.protocol = "file" THEN s.load_args ELSE EmptyDict

LoadReader(s) == IF s.protocol = "file" THEN "polars" ELSE "pyarrow"

\* a scan of a file that is not there fails, and load reports every
\* failure as a dataset error
Load ==
    /\ phase = "ready"
    /\ LET r == GetLoadPath(self, fs)
       IN /\ self' = [self EXCEPT !.vcache.load = r.vload]
          /\ fs' = [fs EXCEPT !.cache = r.cache]
          /\ IF ~r.ok \/ fs.files[r.path] = NoFile
             THEN /\ result' = [NoResult EXCEPT !.op = "load", !.outcome = "DatasetError",
                                                !.path = r.path, !.calls = r.calls]
                  /\ lazy' = NoLazy
             ELSE /\ result' = [NoResult EXCEPT !.op = "load", !.outcome = "ok",
                                                !.path = r.path, !.calls = r.calls,
                                                !.io_kwargs = LoadKwargs(self)]
                  /\ lazy' = [reader |-> LoadReader(self), fmt |-> self.file_format,
                              path |-> r.path, kwargs |-> LoadKwargs(self)]
    /\ UNCHANGED <<phase, args, env, now, saved, module_result>>

\* forcing the lazy frame: the file is read when the caller collects
ReadFormat(fmt, bytes) == IF fmt = csv THEN scan_csv(bytes) ELSE scan_parquet(bytes)

Collect ==
    /\ phase = "ready"
    /\ lazy.reader # "none"
    /\ LET bytes == fs.files[lazy.path]
       IN IF bytes = NoFile \/ bytes.fmt # (IF lazy.fmt = csv THEN "csv" ELSE "parquet")
          THEN result' = [NoResult EXCEPT !.op = "collect", !.outcome = "error",
                                          !.path = lazy.path]
          ELSE result' = [NoResult EXCEPT !.op = "collect", !.outcome = "ok",
                                          !.path = lazy.path,
                                          !.frame = ReadFormat(lazy.fmt, bytes)]
    /\ UNCHANGED <<phase, args, self, fs, env, now, lazy, saved, module_result>>

(***************************************************************************)
(* PolarsDataset._save, behind AbstractVersionedDataSet.save               *)
(***************************************************************************)
\* data.collect() for a lazy frame, the frame itself otherwise (the two
\* BytesIO() buffers before it: the first is dropped, the second is buf)
Collected(data) == data.frame

WriteFormatOtherBuffer(fmt, frame) ==
    [fmt |-> IF fmt = csv THEN "csv" ELSE "parquet", dtype |-> "text", values |-> <<>>]

\* getattr(collected_data, f"write_{self._file_format}")(file=buf, ...)
WriteFormat(fmt, frame) == IF fmt = csv THEN write_csv(frame) ELSE write_parquet(frame)

\* the keyword arguments of self._fs.open(save_path, mode="wb")
SaveOpenKwargs(s) == [k \in {"mode"} |-> <<"wb">>]

\* _invalidate_cache(): the path handed to self._fs.invalidate_cache
InvalidatePath == Base

SaveFailureNoPartitionCheck(s, f, e, sp) ==
    IF ~sp.ok THEN "save path exists"
    ELSE IF PathIsDir(f, e, sp.path) THEN "is_dir"
    ELSE IF FsOpenFails(f, sp.path) THEN "open"
    ELSE "none"

\* which check of _save (or of _get_save_path before it) stops the save
SaveFailure(s, f, e, sp) ==
    IF ~sp.ok THEN "save path exists"
    ELSE IF PathIsDir(f, e, sp.path) THEN "is_dir"
    ELSE IF "partition_cols" \in Keys(s.save_args) THEN "partition_cols"
    ELSE IF FsOpenFails(f, sp.path) THEN "open"
    ELSE "none"

\* the filesystem calls of a save that reaches the with block, in the
\* order the code makes them
SaveFsCalls == <<"open", "write", "invalidate_cache", "close">>

SaveNoWrite(f, path, bytes) == FsInvalidate(f, InvalidatePath)

\* what those calls do to the filesystem
SaveFsEffect(f, path, bytes) == FsClose(FsInvalidate(f, InvalidatePath), path, bytes)

\* the filesystem calls a stopped save has made
FailedSaveCalls(why, sp) == IF why = "open" THEN sp.calls \o <<"open">> ELSE sp.calls

Save(data) ==
    /\ phase = "ready"
    /\ (self.version.on /\ self.version.save = 0) => now < MaxClock
    /\ LET generated == self.version.on /\ self.version.save = 0
           \* save(): the version cache is cleared, the save version resolved
           s1 == [self EXCEPT !.vcache = [load |-> 0,
                                          save |-> IF generated THEN now + 1 ELSE 0]]
           sp == GetSavePath(s1, fs, now)
           why == SaveFailure(s1, fs, env, sp)
           bytes == WriteFormat(self.file_format, Collected(data))
           f2 == SaveFsEffect(fs, sp.path, bytes)
           \* save(): the load version is resolved again after the write
           r == GetLoadPath(s1, f2)
       IN /\ now' = IF generated THEN now + 1 ELSE now
          /\ IF why # "none"
             THEN /\ self' = s1
                  /\ fs' = fs
                  /\ saved' = saved
                  /\ result' = [NoResult EXCEPT !.op = "save", !.outcome = "DatasetError",
                                                !.path = sp.path, !.frame = Collected(data),
                                                !.calls = FailedSaveCalls(why, sp)]
             ELSE /\ self' = [s1 EXCEPT !.vcache.load = r.vload]
                  /\ fs' = [f2 EXCEPT !.cache = r.cache]
                  /\ saved' = [saved EXCEPT ![sp.path] = Collected(data)]
                  /\ result' = [NoResult EXCEPT !.op = "save",
                                                !.outcome = IF r.ok THEN "ok" ELSE "DatasetError",
                                                !.path = sp.path, !.frame = Collected(data),
                                                !.calls = sp.calls \o SaveFsCalls \o r.calls,
                                                !.open_kwargs = SaveOpenKwargs(s1),
                                                !.io_kwargs = s1.save_args,
                                                !.inval = InvalidatePath,
                                                !.warned = r.ok /\ s1.version.on
                                                           /\ r.path # sp.path]
    /\ UNCHANGED <<phase, args, env, lazy, module_result>>

(***************************************************************************)
(* PolarsDataset._exists                                                   *)
(***************************************************************************)
ExistsTrueOnError(r, f) == IF ~r.ok THEN TRUE ELSE FsExists(f, r.path)

\* the value _exists returns once the load path has been resolved (r)
ExistsReturn(r, f) == IF ~r.ok THEN FALSE ELSE FsExists(f, r.path)

Exists ==
    /\ phase = "ready"
    /\ LET r == GetLoadPath(self, fs)
           f1 == [fs EXCEPT !.cache = r.cache]
       IN /\ self' = [self EXCEPT !.vcache.load = r.vload]
          /\ fs' = f1
          /\ result' = [NoResult EXCEPT !.op = "exists", !.outcome = "ok",
                                        !.path = r.path,
                                        !.ret = ExistsReturn(r, f1),
                                        !.calls = IF r.ok THEN r.calls \o <<"exists">>
                                                  ELSE r.calls]
    /\ UNCHANGED <<phase, args, env, now, lazy, saved, module_result>>

(***************************************************************************)
(* PolarsDataset._release                                                  *)
(***************************************************************************)
Release ==
    /\ phase = "ready"
    /\ self' = [self EXCEPT !.vcache = NoVCache]
    /\ fs' = FsInvalidate(fs, InvalidatePath)
    /\ result' = [NoResult EXCEPT !.op = "release", !.outcome = "ok",
                                  !.calls = <<"invalidate_cache">>,
                                  !.inval = InvalidatePath]
    /\ UNCHANGED <<phase, args, env, now, lazy, saved, module_result>>

(***************************************************************************)
(* The module's __getattr__, reached for a name the module does not bind   *)
(***************************************************************************)
\* the names bound at module level: the imports of lines 5 to 20 and the
\* module's own definitions
ModuleGlobals ==
    {"logging", "deepcopy", "BytesIO", "Path", "PurePosixPath", "Any", "ClassVar",
     "Dict", "Optional", "Union", "fsspec", "pl", "ds", "AbstractVersionedDataSet",
     "DatasetError", "Version", "get_filepath_str", "get_protocol_and_path",
     "ACCEPTED_FILE_FORMATS", "PolarsFrame", "logger", "PolarsDataset",
     "_DEPRECATED_CLASSES", "__getattr__", "__name__"}

_DEPRECATED_CLASSES == [k \in {"PolarsDataSet"} |-> "PolarsDataset"]

NoModuleResult == [name |-> "", outcome |-> "none", value |-> "", warned |-> ""]

\* __getattr__(name): every global name the body reads must be bound
module_getattr(name) ==
    IF name \in DOMAIN _DEPRECATED_CLASSES
    THEN IF "warnings" \in ModuleGlobals
         THEN [name |-> name, outcome |-> "return", value |-> _DEPRECATED_CLASSES[name],
               warned |-> _DEPRECATED_CLASSES[name]]
         ELSE [name |-> name, outcome |-> "NameError", value |-> "", warned |-> ""]
    ELSE [name |-> name, outcome |-> "AttributeError", value |-> "", warned |-> ""]

LookupNames == {"PolarsDataSet", "PolarsDataFrame", "LazyPolarsDataset"}

\* a name is looked up in the module before the class it yields is used
ModuleGetattr(name) ==
    /\ phase = "new"
    /\ name \notin ModuleGlobals
    /\ module_result' = module_getattr(name)
    /\ UNCHANGED <<phase, args, self, fs, env, now, result, lazy, saved>>

(***************************************************************************)
(* Initial states and the specifications                                   *)
(***************************************************************************)
VersionArgs ==
    {NoVersion} \cup {[on |-> TRUE, load |-> l, save |-> sv] : l \in 0..1, sv \in 0..1}

\* the directories the target holds before the adapter is used
InitialDirs == {{}, {Root, Base}, {Root, Base, VDir(1), VFile(1)}}

\* every restriction of a dict to some of its keys
SubDicts(d) == {[k \in ks |-> d[k]] : ks \in SUBSET DOMAIN d}

LoadArgsPool == [k \in {"storage_options", "sep"} |-> IF k = "sep" THEN <<",">> ELSE <<"anon">>]

SaveArgsPool ==
    [k \in {"storage_options", "has_header", "partition_cols"} |->
        CASE k = "has_header" -> <<"False">>
          [] k = "partition_cols" -> <<"a">>
          [] OTHER -> <<"anon">>]

FsArgsPool ==
    [k \in {"project", "open_args_load", "open_args_save"} |->
        CASE k = "project" -> <<"my-project">>
          [] k = "open_args_load" -> <<"encoding", "utf-8">>
          [] OTHER -> <<"compression", "gzip">>]

CredentialsPool == [k \in {"project"} |-> <<"dev">>]

\* every way to write s in upper and lower case
RECURSIVE Casings(_)
Casings(s) ==
    IF s = <<>> THEN {<<>>}
    ELSE {<<c>> \o r : c \in {s[1], UpperChar(s[1])}, r \in Casings(Tail(s))}

OtherFormats ==
    {json, <<>>, <<"c", "s">>, <<"c", "s", "v", "x">>, <<"c", "s", "v", " ">>,
     <<"C", "S", "X">>, <<"p", "a", "r", "q", "u", "e", "t", "s">>,
     <<"P", "A", "R", "Q", "U", "E">>, <<"J", "S", "O", "N">>}

InitWith(formats, protocols, versions, load_dicts, save_dicts, cred_dicts, fs_dicts, dir_sets, pool) ==
    /\ phase = "new"
    /\ args \in [file_format : formats, protocol : protocols, version : versions,
                 load_args : load_dicts, save_args : save_dicts,
                 credentials : cred_dicts, fs_args : fs_dicts]
    /\ self = NoSelf
    /\ \E d \in dir_sets, ld \in dir_sets :
          /\ args.protocol = "file" => ld = {}
          /\ fs = [files |-> [p \in Paths |-> NoFile], dirs |-> d, cache |-> {},
                   protocol |-> "none", kwargs |-> EmptyDict]
          /\ env = [local_dirs |-> ld, init_dirs |-> d, pool |-> pool]
    /\ now = 0
    /\ result = NoResult
    /\ lazy = NoLazy
    /\ saved = [p \in Paths |-> NoFrame]
    /\ module_result = NoModuleResult

\* the frames a caller saves where the contents are not what is examined
SmallPool == {[dtype |-> "Int64", values |-> <<"1">>], [dtype |-> "Utf8", values |-> <<"a">>]}

\* the adapter's life on every kind of target, with few options
Init ==
    InitWith({csv, parquet, json}, {"file", "s3"}, VersionArgs,
             {EmptyDict}, SubDicts([k \in {"partition_cols"} |-> <<"a">>]),
             {EmptyDict}, {EmptyDict}, InitialDirs, SmallPool)

\* every frame, without versioning and with a pinned save version, on a
\* target that starts empty
InitFrames ==
    InitWith({csv, parquet}, {"file", "s3"},
             {NoVersion, [on |-> TRUE, load |-> 0, save |-> 1],
              [on |-> TRUE, load |-> 1, save |-> 1]},
             {EmptyDict}, {EmptyDict}, {EmptyDict}, {EmptyDict}, {{}}, Frames)

\* every spelling of the file format, on a plain target
InitFormats ==
    InitWith(Casings(csv) \cup Casings(parquet) \cup OtherFormats, {"file", "s3"},
             {NoVersion}, {EmptyDict}, {EmptyDict}, {EmptyDict}, {EmptyDict}, {{}}, SmallPool)

\* every combination of options, on a plain target
InitOptions ==
    InitWith({csv}, {"file", "s3"}, {NoVersion}, SubDicts(LoadArgsPool),
             SubDicts(SaveArgsPool), SubDicts(CredentialsPool), SubDicts(FsArgsPool), {{}},
             SmallPool)

Next ==
    \/ Construct
    \/ Load
    \/ Collect
    \/ \E fr \in env.pool, lz \in BOOLEAN : Save([is_lazy |-> lz, frame |-> fr])
    \/ Exists
    \/ Release
    \/ \E name \in LookupNames : ModuleGetattr(name)

Spec == Init /\ [][Next]_vars

SpecFrames == InitFrames /\ [][Next]_vars

SpecFormats == InitFormats /\ [][Next]_vars

SpecOptions == InitOptions /\ [][Next]_vars

(***************************************************************************)
(* Properties                                                              *)
(***************************************************************************)
Pos(calls, c) == IF c \in Range(calls) THEN IndexOf(calls, c) ELSE 0

IsCasingOf(s, t) ==
    /\ Len(s) = Len(t)
    /\ \A i \in 1..Len(t) : s[i] = t[i] \/ s[i] = UpperChar(t[i])

AllNumeric(frame) == \A i \in 1..Len(frame.values) : frame.values[i] \in Digits

CollectedOk == result.op = "collect" /\ result.outcome = "ok"

\* C1 (as stated): whenever forcing a loaded lazy frame succeeds, the frame
\* obtained equals the frame that was saved to the path it was read from,
\* for csv and parquet, on local and on remote targets.
C1_RoundTripExact ==
    CollectedOk => result.frame = saved[result.path]

\* C1 (amended): the frame obtained has the saved frame's values; its dtype
\* is the saved one for parquet, and for csv unless the saved column was
\* text whose every value reads as a number (csv type inference).
C1_RoundTripModuloCoercion ==
    CollectedOk =>
        /\ result.frame.values = saved[result.path].values
        /\ self.file_format = parquet => result.frame = saved[result.path]
        /\ (self.file_format = csv
            /\ ~(saved[result.path].dtype = "Utf8" /\ AllNumeric(saved[result.path])))
           => result.frame = saved[result.path]

C1_Witness ==
    /\ CollectedOk
    /\ self.file_format = csv
    /\ self.protocol = "s3"
    /\ self.version.on
    /\ saved[result.path].dtype = "Utf8"
    /\ result.frame = saved[result.path]

\* C2: construction gets past the format check exactly when the file-format
\* argument is csv or parquet in some casing; otherwise it fails with a
\* dataset error.
C2_FormatCheck ==
    phase # "new" =>
        /\ phase = "ready" <=> \E t \in {csv, parquet} : IsCasingOf(args.file_format, t)
        /\ phase = "failed" => result.op = "init" /\ result.outcome = "DatasetError"

C2_Witness ==
    /\ phase = "ready"
    /\ args.file_format = <<"P", "a", "R", "q", "u", "E", "t">>
    /\ self.file_format = parquet

HasPartitionCols == "partition_cols" \in Keys(self.save_args)

\* C3: with partition_cols among the merged save options, every save ends
\* in a dataset error with no open and no write on the filesystem, and
\* leaves the files and directories as they were.
C3_PartitionColsFailsBeforeWrite ==
    /\ [](result.op = "save" /\ HasPartitionCols =>
            /\ result.outcome = "DatasetError"
            /\ "open" \notin Range(result.calls)
            /\ "write" \notin Range(result.calls))
    /\ [][HasPartitionCols' => fs'.files = fs.files /\ fs'.dirs = fs.dirs]_vars

C3_Witness ==
    /\ result.op = "save"
    /\ HasPartitionCols
    /\ result.outcome = "DatasetError"
    /\ result.path \notin fs.dirs
    /\ self.protocol = "s3"

\* C4: a save whose resolved path is an existing directory of the target
\* filesystem, local or remote, ends in a dataset error without writing,
\* and no file appears at that path.
C4_DirectoryTargetFails ==
    (result.op = "save" /\ result.path \in fs.dirs) =>
        /\ result.outcome = "DatasetError"
        /\ "write" \notin Range(result.calls)
        /\ fs.files[result.path] = NoFile

NothingSaved == \A p \in Paths : saved[p] = NoFrame

\* the adapter's load path is a path a save has succeeded at
LoadPathSaved ==
    IF ~self.version.on THEN saved[Base] # NoFrame
    ELSE IF self.version.load # 0 THEN saved[VFile(self.version.load)] # NoFrame
    ELSE \E v \in Versions : saved[VFile(v)] # NoFrame

\* C5: on a target that starts empty, the existence check answers false
\* while no save has succeeded, and true once a save has succeeded at the
\* path the adapter loads from, whatever releases happened in between.
C5_ExistsTracksSave ==
    (result.op = "exists" /\ env.init_dirs = {}) =>
        /\ NothingSaved => result.ret = FALSE
        /\ LoadPathSaved => result.ret = TRUE

C5_Witness ==
    /\ result.op = "exists"
    /\ env.init_dirs = {}
    /\ result.ret = TRUE
    /\ self.version.on
    /\ self.version.load = 0
    /\ self.protocol = "s3"
    /\ saved[VFile(2)] # NoFrame

NoVersionStored == \A v \in Versions : ~StorageHas(fs, VFile(v))

\* C6: the existence check never ends in an error; when the load path
\* cannot be resolved (a versioned adapter with no version yet) it answers
\* false, and otherwise it answers what the filesystem handle's existence
\* check says of the resolved path.
C6_ExistsRecovers ==
    result.op = "exists" =>
        /\ result.outcome = "ok"
        /\ (self.version.on /\ self.version.load = 0 /\ NoVersionStored)
           => result.path = NoPath
        /\ result.path = NoPath => result.ret = FALSE
        /\ result.path # NoPath => result.ret = FsExists(fs, result.path)

C6_Witness ==
    /\ result.op = "exists"
    /\ self.version.on
    /\ self.version.load = 0
    /\ NoVersionStored
    /\ result.path = NoPath
    /\ result.ret = FALSE

KeptExceptStorageOptions(given, kept) ==
    /\ Keys(kept) = Keys(given) \ {"storage_options"}
    /\ \A k \in Keys(kept) : kept[k] = given[k]

\* C7: after a construction given storage_options among the load or save
\* options a warning has been emitted, and in every later state neither
\* effective option set, nor the options handed to the reader or writer,
\* holds that key; every other supplied key keeps its value.
C7_StorageOptionsDropped ==
    phase = "ready" =>
        /\ KeptExceptStorageOptions(args.load_args, self.load_args)
        /\ KeptExceptStorageOptions(args.save_args, self.save_args)
        /\ "storage_options" \notin Keys(result.io_kwargs)
        /\ (result.op = "init" /\ "storage_options" \in Keys(args.load_args) \cup Keys(args.save_args))
           => result.warned

C7_Witness ==
    /\ phase = "ready"
    /\ "storage_options" \in Keys(args.load_args)
    /\ "storage_options" \notin Keys(args.save_args)
    /\ result.op = "load"
    /\ result.outcome = "ok"
    /\ "sep" \in Keys(result.io_kwargs)

\* the open-call arguments a nested filesystem-argument value stands for
OpenArgs(fs_args, key) ==
    IF key \in Keys(fs_args) THEN [k \in {fs_args[key][1]} |-> <<fs_args[key][2]>>]
    ELSE EmptyDict

\* C8: open_args_load and open_args_save are not handed to the filesystem
\* constructor, and a save opens the target with the arguments given under
\* open_args_save, the mode alone forced to writing.
C8_OpenArgsRecognized ==
    phase = "ready" =>
        /\ "open_args_load" \notin Keys(fs.kwargs)
        /\ "open_args_save" \notin Keys(fs.kwargs)
        /\ (result.op = "save" /\ "open" \in Range(result.calls))
           => result.open_kwargs
                = Merge(OpenArgs(args.fs_args, "open_args_save"), [k \in {"mode"} |-> <<"wb">>])

\* C9: in a save that succeeds the cache invalidation comes after the file
\* has been written and closed and names the path that was written; a save
\* that stops before writing invalidates nothing.
C9_InvalidateAfterClose ==
    result.op = "save" =>
        /\ result.outcome = "ok" =>
             /\ Pos(result.calls, "write") < Pos(result.calls, "close")
             /\ Pos(result.calls, "close") < Pos(result.calls, "invalidate_cache")
             /\ result.inval = result.path
        /\ "write" \notin Range(result.calls) => "invalidate_cache" \notin Range(result.calls)

\* C10: a lookup of the deprecated name PolarsDataSet returns the
\* PolarsDataset class after a deprecation warning naming it; a lookup of
\* any other unbound name is an attribute error; nothing else can happen.
C10_DeprecatedAlias ==
    module_result.outcome # "none" =>
        /\ module_result.outcome \in {"return", "AttributeError"}
        /\ module_result.name = "PolarsDataSet" =>
             /\ module_result.outcome = "return"
             /\ module_result.value = "PolarsDataset"
             /\ module_result.warned = "PolarsDataset"
        /\ module_result.name # "PolarsDataSet" => module_result.outcome = "AttributeError"

====
